---------------------------- MODULE Spec2Model ----------------------------
(***************************************************************************)
(* Model of google-contacts-birthday.                                      *)
(*                                                                         *)
(*   scripts/update_calendar.py          the current calendar generator    *)
(*   update_calendar.py                  its earlier variant               *)
(*   scripts/conversion_lunar_leap_month.py   the leap-month table builder *)
(*                                                                         *)
(* The variable script says which of the two generators runs.  One action  *)
(* is one call of an add_*_event function, or one iteration of the retry   *)
(* loop of add_lunar_birthday_event.                                       *)
(***************************************************************************)
EXTENDS Integers, Sequences, FiniteSets, TLC

VARIABLES
    script,        \* "scripts" (scripts/update_calendar.py) or "root" (update_calendar.py)
    current_year,  \* create_calendar's current_year argument
    data0,         \* the records as the caller supplied them (history, never written)
    data,          \* the records create_calendar works on (the caller's objects)
    pc,            \* position inside create_calendar
    p,             \* index of `person` in data
    e,             \* index of `event` in person['events']
    year,          \* the year of the running range() loop
    retries,       \* decrements made by the running call of add_lunar_birthday_event
    calendar,      \* the components added to cal, in order
    occ,           \* history: for every component, the occurrence it was built for
    run,           \* how many times create_calendar has been started
    firstCal,      \* history: the calendar returned by the first run
    lines,         \* read_lunar_leap_months: the entries still to read
    lunar_leap_data, \* read_lunar_leap_months: month number -> list of years
    lpc            \* position inside read_lunar_leap_months

vars == <<script, current_year, data0, data, pc, p, e, year, retries, calendar,
          occ, run, firstCal, lines, lunar_leap_data, lpc>>
calVars == <<script, current_year, data0, data, pc, p, e, year, retries,
             calendar, occ, run, firstCal>>
leapVars == <<lines, lunar_leap_data, lpc>>

-----------------------------------------------------------------------------
(* Bounds of the model *)

\* create_calendar is started at most MaxRuns times on the same records
MaxRuns == 2
\* read_lunar_leap_months reads at most MaxEntries entries
MaxEntries == 3

\* years_to_create = 5 in main()
years_to_create == 5

-----------------------------------------------------------------------------
(* datetime(y, m, d) and timedelta(days=1) of the standard library *)

IsLeapYear(y) == (y % 4 = 0 /\ y % 100 # 0) \/ y % 400 = 0

DaysInMonth(y, m) ==
    IF m = 2 THEN (IF IsLeapYear(y) THEN 29 ELSE 28)
    ELSE IF m \in {4, 6, 9, 11} THEN 30 ELSE 31

\* datetime(y, m, d) raises ValueError unless this holds
ValidDate(y, m, d) ==
    /\ y \in 1..9999
    /\ m \in 1..12
    /\ d \in 1..DaysInMonth(y, m)

Date(y, m, d) == [year |-> y, month |-> m, day |-> d]

\* dt + timedelta(days=1)
PlusOneDay(dt) ==
    IF dt.day < DaysInMonth(dt.year, dt.month)
    THEN Date(dt.year, dt.month, dt.day + 1)
    ELSE IF dt.month < 12 THEN Date(dt.year, dt.month + 1, 1)
    ELSE Date(dt.year + 1, 1, 1)

RECURSIVE DaysBeforeMonth(_, _)
DaysBeforeMonth(y, m) ==
    IF m <= 1 THEN 0 ELSE DaysBeforeMonth(y, m - 1) + DaysInMonth(y, m - 1)

YearDays(y) == IF IsLeapYear(y) THEN 366 ELSE 365

\* the n-th day (n >= 1) counted from 1 January of year y
DateFromOrdinal(y, n) ==
    LET yy == IF n > YearDays(y) THEN y + 1 ELSE y
        nn == IF n > YearDays(y) THEN n - YearDays(y) ELSE n
        mm == CHOOSE m \in 1..12 :
                 /\ DaysBeforeMonth(yy, m) < nn
                 /\ nn <= DaysBeforeMonth(yy, m) + DaysInMonth(yy, m)
    IN  Date(yy, mm, nn - DaysBeforeMonth(yy, mm))

-----------------------------------------------------------------------------
(* The lunarcalendar library: Lunar(year, month, day) and                  *)
(* Converter.Lunar2Solar.  Its data table is not part of the repository;   *)
(* the model carries a sample table for the lunar years 2024..2029: the    *)
(* solar date of the lunar new year, the lengths of the twelve regular     *)
(* months, and the leap month (0: none) with its length.                   *)

LunarYears == 2024..2029

LunarNewYear(y) ==
    CASE y = 2024 -> [month |-> 2, day |-> 10]
      [] y = 2025 -> [month |-> 1, day |-> 29]
      [] y = 2026 -> [month |-> 2, day |-> 17]
      [] y = 2027 -> [month |-> 2, day |-> 6]
      [] y = 2028 -> [month |-> 1, day |-> 26]
      [] y = 2029 -> [month |-> 2, day |-> 13]

LunarMonthDays(y) ==
    CASE y = 2024 -> <<29, 30, 29, 29, 30, 29, 30, 30, 29, 30, 30, 29>>
      [] y = 2025 -> <<30, 29, 30, 29, 29, 30, 30, 29, 30, 30, 30, 29>>
      [] y = 2026 -> <<30, 29, 30, 29, 30, 29, 29, 29, 30, 30, 30, 29>>
      [] y = 2027 -> <<30, 29, 29, 30, 29, 30, 29, 30, 30, 29, 30, 29>>
      [] y = 2028 -> <<30, 29, 30, 29, 29, 30, 29, 30, 30, 30, 29, 29>>
      [] y = 2029 -> <<30, 29, 30, 29, 30, 29, 29, 30, 30, 29, 30, 30>>

LunarLeapMonth(y) ==
    CASE y = 2025 -> [month |-> 6, days |-> 29]
      [] y = 2028 -> [month |-> 5, days |-> 30]
      [] OTHER    -> [month |-> 0, days |-> 0]

\* Lunar(y, m, d) / Lunar2Solar raise DateNotExist unless this holds
LunarDateExists(y, m, d) ==
    /\ y \in LunarYears
    /\ m \in 1..12
    /\ d \in 1..LunarMonthDays(y)[m]

RECURSIVE LunarDaysBeforeMonth(_, _)
LunarDaysBeforeMonth(y, m) ==
    IF m <= 1 THEN 0
    ELSE LunarDaysBeforeMonth(y, m - 1) + LunarMonthDays(y)[m - 1]
         + (IF LunarLeapMonth(y).month = m - 1 THEN LunarLeapMonth(y).days ELSE 0)

\* Converter.Lunar2Solar(Lunar(y, m, d)) for an existing, non-leap lunar date
Lunar2Solar(y, m, d) ==
    DateFromOrdinal(y, DaysBeforeMonth(y, LunarNewYear(y).month) + LunarNewYear(y).day
                       + LunarDaysBeforeMonth(y, m) + d - 1)


-----------------------------------------------------------------------------
(* The input records (the `connections` handed to create_calendar).        *)
(* A key that may be absent ('nicknames', 'birthdays', 'events', and the   *)
(* 'year' of a date) is an empty sequence, or a record without the field.  *)

Subjects == <<"Alice", "Bob">>

\* person['nicknames'][0]['value'], when the person has a nickname
NicknamesOf(i) == IF i = 1 THEN <<"Ali">> ELSE <<>>

\* person['birthdays'][0]['date']
BirthdayChoices ==
    { <<>>,
      << [month |-> 2, day |-> 10] >>,
      << [year |-> 2000, month |-> 2, day |-> 29] >>,
      << [year |-> 1990, month |-> 12, day |-> 31] >> }

\* event['type'] is label + '#' + kind; event['date'] is the date record.
\* kind "lunar_birthday" stands for a type containing the lunar-birthday
\* marker, "anniversary" for one containing the anniversary marker.
LunarEvent(d) == [type |-> [label |-> "", kind |-> "lunar_birthday"], date |-> d]
AnniversaryEvent(d) == [type |-> [label |-> " wedding", kind |-> "anniversary"], date |-> d]
OtherEvent(d) == [type |-> [label |-> "", kind |-> "other"], date |-> d]

\* person['events']
EventChoices ==
    { <<>>,
      << LunarEvent([month |-> 1, day |-> 1]) >>,
      << LunarEvent([year |-> 1990, month |-> 12, day |-> 30]) >>,
      << LunarEvent([month |-> 2, day |-> 30]) >>,
      << LunarEvent([month |-> 3, day |-> 0]) >>,
      << LunarEvent([year |-> 1988, month |-> 12, day |-> 15]) >>,
      << AnniversaryEvent([year |-> 2015, month |-> 6, day |-> 1]) >>,
      << OtherEvent([month |-> 6, day |-> 1]),
         AnniversaryEvent([month |-> 2, day |-> 29]) >> }

\* get_connections keeps the contacts that have a birthday or an event
has_birthday_or_event(contact) == contact.birthdays # <<>> \/ contact.events # <<>>

\* update_calendar.py, lines 51-57: get_connections keeps the contacts that
\* have a birthday or an event whose type names a birthday
has_birthday(contact) ==
    \/ contact.birthdays # <<>>
    \/ \E k \in DOMAIN contact.events : contact.events[k].type.kind = "lunar_birthday"

Inputs ==
    { d \in UNION { [1..n -> [names : {Subjects[1], Subjects[2]},
                              nicknames : {<<>>, <<"Ali">>},
                              birthdays : BirthdayChoices,
                              events : EventChoices]] : n \in 1..Len(Subjects) } :
        \A i \in DOMAIN d : /\ d[i].names = Subjects[i]
                            /\ d[i].nicknames = NicknamesOf(i)
                            /\ has_birthday_or_event(d[i]) }

CurrentYears == {2024, 2025}

-----------------------------------------------------------------------------
(* Text and identifiers of an event.  An optional value (None in Python)   *)
(* is <<>>, a present one <<v>>.  A summary or description is its template *)
(* and the values the f-string interpolates; a uid is the tuple of its     *)
(* fields (month and day are printed with two digits, so the tuple and the *)
(* string determine each other for names without '-').                     *)

Get(d, key) == IF key \in DOMAIN d THEN <<d[key]>> ELSE <<>>

\* Python truthiness of an optional integer: None and 0 are false
Truthy(opt) == opt # <<>> /\ opt[1] # 0

get_preferred_nickname(name, nickname) ==
    IF nickname # <<>> /\ nickname[1] # "" THEN nickname[1] ELSE name

Text(template, name, age) == [template |-> template, name |-> name, age |-> age]

\* the templates that render an age: "{name}的{age}岁生日", ...
AgeTemplates == {"birthday_with_age", "lunar_birthday_with_age", "anniversary_with_age"}

\* lines 116-122: age, summary and description of a solar birthday
GregorianAge(y, birth_year) == IF Truthy(birth_year) THEN <<y - birth_year[1]>> ELSE <<>>

\* GregorianTemplate with the test of birth_year lost (the age is always rendered)
GregorianTemplateAlwaysAge(birth_year) == "birthday_with_age"

GregorianTemplate(birth_year) ==
    IF Truthy(birth_year) THEN "birthday_with_age" ELSE "birthday"

add_gregorian_birthday_event(name, nickname, birth_date, y, birth_year, now) ==
    [uid |-> <<name, y, birth_date.month, birth_date.day, "gregorian-birthday">>,
     summary |-> Text(GregorianTemplate(birth_year), name, GregorianAge(y, birth_year)),
     dtstart |-> Date(y, birth_date.month, birth_date.day),
     dtend |-> PlusOneDay(Date(y, birth_date.month, birth_date.day)),
     description |-> Text(GregorianTemplate(birth_year),
                          get_preferred_nickname(name, nickname),
                          GregorianAge(y, birth_year)),
     categories |-> "BIRTHDAY",
     dtstamp |-> now]

\* lines 168-208: the event of a lunar birthday once the conversion succeeded
LunarTemplate(lunar_date) ==
    IF "year" \in DOMAIN lunar_date THEN "lunar_birthday_with_age" ELSE "lunar_birthday"

LunarAge(y, lunar_date) ==
    IF "year" \in DOMAIN lunar_date THEN <<y - lunar_date.year>> ELSE <<>>

LunarUid(name, solar_date) ==
    <<name, solar_date.year, solar_date.month, solar_date.day, "lunar-birthday">>

LunarEventOf(name, nickname, lunar_date, y, solar_date, now) ==
    [uid |-> LunarUid(name, solar_date),
     summary |-> Text(LunarTemplate(lunar_date), name, LunarAge(y, lunar_date)),
     dtstart |-> solar_date,
     dtend |-> PlusOneDay(solar_date),
     description |-> Text(LunarTemplate(lunar_date),
                          get_preferred_nickname(name, nickname),
                          LunarAge(y, lunar_date)),
     categories |-> "BIRTHDAY",
     dtstamp |-> now]

\* lines 213-249; event_name = name.strip()
Strip(label) == IF label = " wedding" THEN "wedding" ELSE label

AnniversaryTemplate(anniversary_year) ==
    IF Truthy(anniversary_year) THEN "anniversary_with_age" ELSE "anniversary"

add_anniversary_event(name, event_date, y, anniversary_year, now) ==
    LET age == IF Truthy(anniversary_year) THEN <<y - anniversary_year[1]>> ELSE <<>>
    IN  [uid |-> <<Strip(name), y, event_date.month, event_date.day, "anniversary">>,
         summary |-> Text(AnniversaryTemplate(anniversary_year), Strip(name), age),
         dtstart |-> Date(y, event_date.month, event_date.day),
         dtend |-> PlusOneDay(Date(y, event_date.month, event_date.day)),
         description |-> Text(AnniversaryTemplate(anniversary_year), Strip(name), age),
         categories |-> "ANNIVERSARY",
         dtstamp |-> now]

\* update_calendar.py, add_event (lines 70-91): one builder for both kinds,
\* and a uid without a kind tag
RootTemplate(is_lunar, birth_year) ==
    IF Truthy(birth_year)
    THEN (IF is_lunar THEN "lunar_birthday_with_age" ELSE "birthday_with_age")
    ELSE (IF is_lunar THEN "lunar_birthday" ELSE "birthday")

add_event(name, date, y, is_lunar, birth_year, now) ==
    LET age == IF Truthy(birth_year) THEN <<y - birth_year[1]>> ELSE <<>>
    IN  [uid |-> <<name, y, date.month, date.day, "">>,
         summary |-> Text(RootTemplate(is_lunar, birth_year), name, age),
         dtstart |-> Date(y, date.month, date.day),
         dtend |-> PlusOneDay(Date(y, date.month, date.day)),
         description |-> Text(RootTemplate(is_lunar, birth_year), name, age),
         categories |-> "",
         dtstamp |-> now]

\* history: the occurrence a component was built for
Occurrence(person, rec, kind, y, lunar_day, resolved) ==
    [person |-> person, rec |-> rec, kind |-> kind, year |-> y,
     lunar_day |-> lunar_day, resolved |-> resolved]

-----------------------------------------------------------------------------
(* create_calendar of scripts/update_calendar.py *)

Now == run
RangeEnd == current_year + years_to_create

\* the statement `raise`: create_calendar is left without returning cal
Raise(error) == pc' = error

\* lines 265-280: the next person of `for person in data`; birth_date is
\* built with datetime(), which raises ValueError for a date that does not exist
StartPerson ==
    /\ script = "scripts" /\ pc = "person" /\ p <= Len(data)
    /\ IF data[p].birthdays # <<>>
       THEN LET b == data[p].birthdays[1]
                y == IF "year" \in DOMAIN b THEN b.year ELSE current_year
            IN  /\ IF ValidDate(y, b.month, b.day)
                   THEN pc' = "gregorian" ELSE Raise("ValueError")
                /\ year' = current_year
                /\ e' = 0
       ELSE /\ pc' = "events"
            /\ e' = 1
            /\ year' = current_year
    /\ UNCHANGED <<script, current_year, data0, data, p, retries, calendar, occ,
                   run, firstCal, leapVars>>

\* lines 281-282: one call of add_gregorian_birthday_event
AddGregorianBirthday ==
    /\ script = "scripts" /\ pc = "gregorian"
    /\ LET person == data[p]
           b == person.birthdays[1]
       IN  IF ValidDate(year, b.month, b.day)
           THEN /\ calendar' = Append(calendar,
                      add_gregorian_birthday_event(person.names, person.nicknames, b,
                                                   year, Get(b, "year"), Now))
                /\ occ' = Append(occ, Occurrence(p, 0, "solar", year, 0,
                                                 Date(year, b.month, b.day)))
                /\ IF year + 1 < RangeEnd
                   THEN year' = year + 1 /\ UNCHANGED <<pc, e>>
                   ELSE pc' = "events" /\ e' = 1 /\ year' = current_year
           ELSE /\ Raise("ValueError")
                /\ UNCHANGED <<calendar, occ, year, e>>
    /\ UNCHANGED <<script, current_year, data0, data, p, retries, run, firstCal,
                   leapVars>>

\* lines 284-296: the next event of `for event in person['events']`, and
\* the choice of its branch by the text of event['type']
NextEvent ==
    /\ script = "scripts" /\ pc = "events" /\ e <= Len(data[p].events)
    /\ LET kind == data[p].events[e].type.kind
       IN  IF kind = "lunar_birthday" THEN pc' = "lunar" /\ e' = e
           ELSE IF kind = "anniversary" THEN pc' = "anniversary" /\ e' = e
           ELSE pc' = "events" /\ e' = e + 1
    /\ year' = current_year
    /\ retries' = 0
    /\ UNCHANGED <<script, current_year, data0, data, p, calendar, occ, run,
                   firstCal, leapVars>>

\* DecrementDay with the decrement lost (the day is left as it was)
DecrementDayLost(d) == d

\* line 164 / 184: lunar_date['day'] -= 1
DecrementDay(d) == d - 1

\* line 165 / 185: if lunar_date['day'] < 1: raise ValueError
AdjustmentFailed(d) == d < 1

\* lines 157-166 (177-186): one iteration of `while True` in
\* add_lunar_birthday_event, and on success the rest of the call (168-208).
\* lunar_date is the caller's record itself: the decrement writes data.
LunarTry ==
    /\ script = "scripts" /\ pc = "lunar"
    /\ LET person == data[p]
           lunar_date == person.events[e].date
       IN  IF LunarDateExists(year, lunar_date.month, lunar_date.day)
           THEN LET solar == Lunar2Solar(year, lunar_date.month, lunar_date.day)
                IN  /\ calendar' = Append(calendar,
                          LunarEventOf(person.names, person.nicknames, lunar_date,
                                       year, solar, Now))
                    /\ occ' = Append(occ, Occurrence(p, e, "lunar", year,
                                                     lunar_date.day, solar))
                    /\ retries' = 0
                    /\ IF year + 1 < RangeEnd
                       THEN year' = year + 1 /\ UNCHANGED <<pc, e>>
                       ELSE pc' = "events" /\ e' = e + 1 /\ year' = current_year
                    /\ UNCHANGED data
           ELSE /\ data' = [data EXCEPT ![p].events[e].date.day = DecrementDay(@)]
                /\ retries' = retries + 1
                /\ IF AdjustmentFailed(DecrementDay(lunar_date.day))
                   THEN Raise("exhausted") ELSE UNCHANGED pc
                /\ UNCHANGED <<calendar, occ, year, e>>
    /\ UNCHANGED <<script, current_year, data0, p, run, firstCal, leapVars>>

\* lines 292-296: one call of add_anniversary_event
AddAnniversary ==
    /\ script = "scripts" /\ pc = "anniversary"
    /\ LET event == data[p].events[e]
           event_date == event.date
       IN  IF ValidDate(year, event_date.month, event_date.day)
           THEN /\ calendar' = Append(calendar,
                      add_anniversary_event(event.type.label, event_date, year,
                                            Get(event_date, "year"), Now))
                /\ occ' = Append(occ, Occurrence(p, e, "anniversary", year, 0,
                                    Date(year, event_date.month, event_date.day)))
                /\ IF year + 1 < RangeEnd
                   THEN year' = year + 1 /\ UNCHANGED <<pc, e>>
                   ELSE pc' = "events" /\ e' = e + 1 /\ year' = current_year
           ELSE /\ Raise("ValueError")
                /\ UNCHANGED <<calendar, occ, year, e>>
    /\ UNCHANGED <<script, current_year, data0, data, p, retries, run, firstCal,
                   leapVars>>

\* line 285 exhausted: back to `for person in data`
NextPerson ==
    /\ script = "scripts" /\ pc = "events" /\ e > Len(data[p].events)
    /\ pc' = "person"
    /\ p' = p + 1
    /\ e' = 0
    /\ UNCHANGED <<script, current_year, data0, data, year, retries, calendar, occ,
                   run, firstCal, leapVars>>

\* line 298: return cal
Return ==
    /\ script = "scripts" /\ pc = "person" /\ p > Len(data)
    /\ pc' = "done"
    /\ firstCal' = IF run = 1 THEN calendar ELSE firstCal
    /\ UNCHANGED <<script, current_year, data0, data, p, e, year, retries,
                   calendar, occ, run, leapVars>>

-----------------------------------------------------------------------------
(* create_calendar of update_calendar.py *)

\* lines 98-109
RootStartPerson ==
    /\ script = "root" /\ pc = "person" /\ p <= Len(data)
    /\ IF data[p].birthdays # <<>>
       THEN LET b == data[p].birthdays[1]
                y == IF "year" \in DOMAIN b THEN b.year ELSE current_year
            IN  /\ IF ValidDate(y, b.month, b.day)
                   THEN pc' = "gregorian" ELSE Raise("ValueError")
       ELSE pc' = "events"
    /\ year' = current_year
    /\ e' = 1
    /\ UNCHANGED <<script, current_year, data0, data, p, retries, calendar, occ,
                   run, firstCal, leapVars>>

\* birth_year of lines 100 and 109: None unless the person has a birthday with a year
RootBirthYear(person) ==
    IF person.birthdays # <<>> THEN Get(person.birthdays[1], "year") ELSE <<>>

\* lines 110-111: one call of add_event for the birthday
RootAddBirthday ==
    /\ script = "root" /\ pc = "gregorian"
    /\ LET person == data[p]
           b == person.birthdays[1]
       IN  IF ValidDate(year, b.month, b.day)
           THEN /\ calendar' = Append(calendar,
                      add_event(person.names, b, year, FALSE, RootBirthYear(person), Now))
                /\ occ' = Append(occ, Occurrence(p, 0, "solar", year, 0,
                                                 Date(year, b.month, b.day)))
                /\ IF year + 1 < RangeEnd
                   THEN year' = year + 1 /\ UNCHANGED pc
                   ELSE pc' = "events" /\ year' = current_year
           ELSE /\ Raise("ValueError")
                /\ UNCHANGED <<calendar, occ, year>>
    /\ UNCHANGED <<script, current_year, data0, data, p, e, retries, run, firstCal,
                   leapVars>>

\* lines 113-119: one iteration of the loop over the years for
\* person['events'][0], which is taken for a lunar birthday whatever its
\* type; DateNotExist is not caught, and the event is built from the target
\* year with the month and day of the solar date
RootAddLunar ==
    /\ script = "root" /\ pc = "events" /\ data[p].events # <<>>
    /\ LET person == data[p]
           lunar_date == person.events[1].date
       IN  IF ~LunarDateExists(year, lunar_date.month, lunar_date.day)
           THEN /\ Raise("DateNotExist")
                /\ UNCHANGED <<calendar, occ, year, p>>
           ELSE LET solar == Lunar2Solar(year, lunar_date.month, lunar_date.day)
                IN  IF ValidDate(year, solar.month, solar.day)
                    THEN /\ calendar' = Append(calendar,
                               add_event(person.names, solar, year, TRUE,
                                         RootBirthYear(person), Now))
                         /\ occ' = Append(occ, Occurrence(p, 1, "lunar", year,
                                                          lunar_date.day, solar))
                         /\ IF year + 1 < RangeEnd
                            THEN year' = year + 1 /\ UNCHANGED <<pc, p>>
                            ELSE pc' = "person" /\ p' = p + 1 /\ year' = current_year
                    ELSE /\ Raise("ValueError")
                         /\ UNCHANGED <<calendar, occ, year, p>>
    /\ UNCHANGED <<script, current_year, data0, data, e, retries, run, firstCal,
                   leapVars>>

\* line 113 false: the person has no events
RootNextPerson ==
    /\ script = "root" /\ pc = "events" /\ data[p].events = <<>>
    /\ pc' = "person"
    /\ p' = p + 1
    /\ UNCHANGED <<script, current_year, data0, data, e, year, retries, calendar,
                   occ, run, firstCal, leapVars>>

\* line 121: return cal
RootReturn ==
    /\ script = "root" /\ pc = "person" /\ p > Len(data)
    /\ pc' = "done"
    /\ firstCal' = IF run = 1 THEN calendar ELSE firstCal
    /\ UNCHANGED <<script, current_year, data0, data, p, e, year, retries,
                   calendar, occ, run, leapVars>>

-----------------------------------------------------------------------------
(* The caller *)

\* create_calendar(connections, current_year, years_to_create) is called
\* again with the same list of records
Rerun ==
    /\ pc = "done" /\ run < MaxRuns
    /\ run' = run + 1
    /\ pc' = "person"
    /\ p' = 1
    /\ e' = 0
    /\ year' = current_year
    /\ retries' = 0
    /\ calendar' = <<>>
    /\ occ' = <<>>
    /\ UNCHANGED <<script, current_year, data0, data, firstCal, leapVars>>

LeapIdle == /\ lines = <<>> /\ lunar_leap_data = <<>> /\ lpc = "off"

Init ==
    /\ script \in {"scripts", "root"}
    /\ current_year \in CurrentYears
    /\ data0 \in Inputs
    /\ script = "root" => \A i \in DOMAIN data0 : has_birthday(data0[i])
    /\ data = data0
    /\ pc = "person"
    /\ p = 1
    /\ e = 0
    /\ year = current_year
    /\ retries = 0
    /\ calendar = <<>>
    /\ occ = <<>>
    /\ run = 1
    /\ firstCal = <<>>
    /\ LeapIdle

Next ==
    \/ StartPerson
    \/ AddGregorianBirthday
    \/ NextEvent
    \/ LunarTry
    \/ AddAnniversary
    \/ NextPerson
    \/ Return
    \/ RootStartPerson
    \/ RootAddBirthday
    \/ RootAddLunar
    \/ RootNextPerson
    \/ RootReturn
    \/ Rerun

Spec == Init /\ [][Next]_vars

-----------------------------------------------------------------------------
(* read_lunar_leap_months of scripts/conversion_lunar_leap_month.py.       *)
(* The file is taken after line.strip(), split and int(): a sequence of    *)
(* entries [year, leap_month], leap_month being the month name.            *)

\* lines 10-14: month_map, by the pinyin of the twelve month names
month_map ==
    [name \in {"zhengyue", "eryue", "sanyue", "siyue", "wuyue", "liuyue", "qiyue",
               "bayue", "jiuyue", "shiyue", "dongyue", "layue"} |->
        CASE name = "zhengyue" -> 1 [] name = "eryue" -> 2 [] name = "sanyue" -> 3
          [] name = "siyue" -> 4 [] name = "wuyue" -> 5 [] name = "liuyue" -> 6
          [] name = "qiyue" -> 7 [] name = "bayue" -> 8 [] name = "jiuyue" -> 9
          [] name = "shiyue" -> 10 [] name = "dongyue" -> 11 [] name = "layue" -> 12]

EntryChoices ==
    [year : {2023, 2025}, leap_month : {"eryue", "liuyue", "runyue"}]

LeapInputs == UNION { [1..n -> EntryChoices] : n \in 0..MaxEntries }

\* sorted(v): ascending, every element kept
RECURSIVE InsertSorted(_, _)
InsertSorted(s, x) ==
    IF s = <<>> THEN <<x>>
    ELSE IF x < Head(s) THEN <<x>> \o s
    ELSE <<Head(s)>> \o InsertSorted(Tail(s), x)

RECURSIVE sorted(_)
sorted(v) == IF v = <<>> THEN <<>> ELSE InsertSorted(sorted(Tail(v)), Head(v))

\* lines 20-25: one entry; month_map[leap_month] raises KeyError for a
\* name that is not in the map
ReadEntry ==
    /\ lpc = "reading" /\ lines # <<>>
    /\ LET entry == Head(lines)
       IN  IF entry.leap_month \in DOMAIN month_map
           THEN LET month_number == month_map[entry.leap_month]
                    old == IF month_number \in DOMAIN lunar_leap_data
                           THEN lunar_leap_data[month_number] ELSE <<>>
                IN  /\ lunar_leap_data' =
                          [k \in DOMAIN lunar_leap_data \cup {month_number} |->
                              IF k = month_number THEN Append(old, entry.year)
                              ELSE lunar_leap_data[k]]
                    /\ lines' = Tail(lines)
                    /\ UNCHANGED lpc
           ELSE /\ lpc' = "KeyError"
                /\ UNCHANGED <<lines, lunar_leap_data>>
    /\ UNCHANGED calVars

\* lines 27-33: the months without an entry get [], every list is sorted
\* and the table is returned
FinishTable ==
    /\ lpc = "reading" /\ lines = <<>>
    /\ lunar_leap_data' =
          [k \in DOMAIN lunar_leap_data \cup 1..12 |->
              IF k \in DOMAIN lunar_leap_data THEN sorted(lunar_leap_data[k]) ELSE <<>>]
    /\ lpc' = "returned"
    /\ UNCHANGED <<lines, calVars>>

CalIdle ==
    /\ script = "none" /\ current_year = 0 /\ data0 = <<>> /\ data = <<>>
    /\ pc = "off" /\ p = 0 /\ e = 0 /\ year = 0 /\ retries = 0
    /\ calendar = <<>> /\ occ = <<>> /\ run = 0 /\ firstCal = <<>>

InitLeap ==
    /\ CalIdle
    /\ lines \in LeapInputs
    /\ lunar_leap_data = <<>>
    /\ lpc = "reading"

NextLeap == ReadEntry \/ FinishTable

SpecLeap == InitLeap /\ [][NextLeap]_vars

-----------------------------------------------------------------------------
(* Properties *)

Ended == pc \in {"done", "ValueError", "exhausted", "DateNotExist"}

\* the date record, as the caller supplied it, an occurrence was built from
RecordOf(o) ==
    IF o.rec = 0 THEN data0[o.person].birthdays[1]
    ELSE data0[o.person].events[o.rec].date

\* a lunar (month, day) that exists in at least one year of the table
ValidSomeYear(d) == \E y \in LunarYears : LunarDateExists(y, d.month, d.day)

\* C1: in scripts/update_calendar.py, for a lunar (month, day) with day in
\* 1..31 that exists in at least one year, a call of add_lunar_birthday_event
\* makes at most 29 decrements, and the day it converts on success is at
\* least 1 and at most the day the caller supplied.
C1_RetryLoopBounded ==
    script = "scripts" =>
      /\ (pc \in {"lunar", "exhausted"}
          /\ data0[p].events[e].date.day \in 1..31
          /\ ValidSomeYear(data0[p].events[e].date))
         => retries <= 29
      /\ \A i \in DOMAIN occ :
            (occ[i].kind = "lunar" /\ ValidSomeYear(RecordOf(occ[i])))
            => occ[i].lunar_day \in 1..RecordOf(occ[i]).day

\* C1 witness: a lunar birthday was converted after its day had been reduced
C1_Witness ==
    /\ script = "scripts"
    /\ \E i \in DOMAIN occ :
          /\ occ[i].kind = "lunar"
          /\ ValidSomeYear(RecordOf(occ[i]))
          /\ occ[i].lunar_day < RecordOf(occ[i]).day

\* the records the spec takes for well formed: month in 1..12, day in 1..31
WellFormed(d) == d.month \in 1..12 /\ d.day \in 1..31

AllWellFormed ==
    \A i \in DOMAIN data0 :
       /\ \A k \in DOMAIN data0[i].birthdays : WellFormed(data0[i].birthdays[k])
       /\ \A k \in DOMAIN data0[i].events : WellFormed(data0[i].events[k].date)

\* C2: outside a running call of add_lunar_birthday_event (after it returned
\* or raised), the caller's well-formed records have the value they were
\* supplied with.
C2_RecordNotMutated ==
    (script = "scripts" /\ AllWellFormed /\ (pc # "lunar" \/ retries = 0))
    => data = data0

\* the day the resolver reaches from day d in year y, taken alone: the
\* greatest existing day not above d (0: none)
RECURSIVE ResolvedDay(_, _, _)
ResolvedDay(y, m, d) ==
    IF d < 1 THEN 0
    ELSE IF LunarDateExists(y, m, d) THEN d ELSE ResolvedDay(y, m, d - 1)

\* C3: for every target year, the first day add_lunar_birthday_event tries
\* is the day the caller supplied, and the event of a year is the one that
\* year would get were it the only year processed.
C3_YearsResolvedIndependently ==
    (script = "scripts" /\ run = 1) =>
      /\ (pc = "lunar" /\ retries = 0)
         => data[p].events[e].date.day = data0[p].events[e].date.day
      /\ \A i \in DOMAIN occ :
            occ[i].kind = "lunar"
            => occ[i].lunar_day =
                 ResolvedDay(occ[i].year, RecordOf(occ[i]).month, RecordOf(occ[i]).day)

\* the document create_calendar hands back: none when it raised
Document == IF pc = "done" THEN occ ELSE <<>>

\* the target years of the events of record rec of person i, in document order
RECURSIVE YearsOf(_, _, _)
YearsOf(doc, i, rec) ==
    IF doc = <<>> THEN <<>>
    ELSE IF Head(doc).person = i /\ Head(doc).rec = rec
         THEN <<Head(doc).year>> \o YearsOf(Tail(doc), i, rec)
         ELSE YearsOf(Tail(doc), i, rec)

RangeYears == [k \in 1..years_to_create |-> current_year + k - 1]

\* a birthday, a lunar birthday or an anniversary
IsDateRecord(i, rec) ==
    rec = 0 \/ data0[i].events[rec].type.kind \in {"lunar_birthday", "anniversary"}

\* C4: when create_calendar has ended on well-formed records, the document
\* holds, for every date record, exactly one event for each year of the
\* range, in ascending order of the years.
C4_OneEventPerYear ==
    (run = 1 /\ Ended /\ AllWellFormed) =>
      \A i \in DOMAIN data0 :
         /\ data0[i].birthdays # <<>> => YearsOf(Document, i, 0) = RangeYears
         /\ \A k \in DOMAIN data0[i].events :
               IsDateRecord(i, k) => YearsOf(Document, i, k) = RangeYears

\* the origin year the program has for an occurrence: the year of the
\* birthday or of the event's date; update_calendar.py reads for a lunar
\* birthday the person's birth year only
OriginYear(o) ==
    IF o.rec = 0 THEN Get(data0[o.person].birthdays[1], "year")
    ELSE IF script = "root"
         THEN (IF data0[o.person].birthdays # <<>>
               THEN Get(data0[o.person].birthdays[1], "year") ELSE <<>>)
         ELSE Get(data0[o.person].events[o.rec].date, "year")

AgeRendered(text, o) ==
    /\ text.template \in AgeTemplates <=> OriginYear(o) # <<>>
    /\ text.template \in AgeTemplates => text.age = <<o.year - OriginYear(o)[1]>>
    /\ text.template \notin AgeTemplates => text.age = <<>>

C6_KindsNeverCollide ==
    \A i, j \in DOMAIN calendar :
       (/\ occ[i].person = occ[j].person
        /\ occ[i].kind = "solar" /\ occ[j].kind = "lunar"
        /\ occ[i].resolved = occ[j].resolved)
       => calendar[i].uid # calendar[j].uid

\* C7: every event starts on the resolved solar date of its occurrence
\* and ends one day after its start.
C7_StartsOnResolvedDate ==
    \A i \in DOMAIN calendar :
       /\ calendar[i].dtstart = occ[i].resolved
       /\ calendar[i].dtend = PlusOneDay(calendar[i].dtstart)

\* C8: when the adjustment of a lunar day is exhausted for one subject, no
\* event exists for the failed occurrence and the events of every other
\* subject have been generated.
C8_OnlyFailingSubjectAborted ==
    pc = "exhausted" =>
      /\ \A i \in DOMAIN occ :
            ~(occ[i].person = p /\ occ[i].rec = e /\ occ[i].year = year)
      /\ \A q \in DOMAIN data0 \ {p} : \E i \in DOMAIN occ : occ[i].person = q

\* an event without its run-timestamp fields
WithoutStamp(ev) == [ev EXCEPT !.dtstamp = 0]

\* C9: a second run of create_calendar on the same records, current_year
\* and years_to_create returns the events of the first run, up to the
\* run-timestamp fields.
C9_RerunSameEvents ==
    (run = 2 /\ pc = "done") =>
      /\ Len(calendar) = Len(firstCal)
      /\ \A i \in DOMAIN calendar : WithoutStamp(calendar[i]) = WithoutStamp(firstCal[i])

\* C10: for recognized month names the table returned has exactly the keys
\* 1..12, each with a list of years in ascending order without duplicates.
C10_TwelveSortedUniqueLists ==
    lpc = "returned" =>
      /\ DOMAIN lunar_leap_data = 1..12
      /\ \A k \in DOMAIN lunar_leap_data :
            \A a, b \in DOMAIN lunar_leap_data[k] :
               a < b => lunar_leap_data[k][a] < lunar_leap_data[k][b]

=============================================================================
